---- MODULE Spec2Model ----
(***************************************************************************)
(* Proof-of-Authority validator-set governance of the IBFT engine:        *)
(* consensus/ibft/poa.go.  The model follows processHeadersHook statement *)
(* by statement; the snapshot, validator-set and store helpers it calls   *)
(* live outside poa.go and are modelled from their documented contract.   *)
(***************************************************************************)
EXTENDS Integers, Sequences, FiniteSets, TLC

\* ------------------------------------------------------------------ bounds

\* Highest block number the block processor hands to the hook.
MaxNumber == 9

\* Longest vote list of a crafted (corrupted-history) parent snapshot.
MaxCraftedVotes == 2

\* ------------------------------------------------------- values and config

\* The values poa.ibft.epochSize is configured with (a positive integer).
EpochSizes == {1, 2, 3, 4}

\* types.ZeroAddress and the other addresses of the model.
ZeroAddress == "zero"

Addresses == {"a", "b", "c", "d"}

\* The validator set the chain starts from.
GenesisSet == <<"a", "b", "c">>

\* The two vote sentinels and one nonce that is neither.
nonceAuthVote == "auth"

nonceDropVote == "drop"

nonceOther == "other"

Nonces == {nonceAuthVote, nonceDropVote, nonceOther}

\* Result codes of processHeadersHook: nil and the two fmt.Errorf values.
ErrNil == "nil"

ErrIncorrectVoteNonce == "incorrect vote nonce"

ErrDuplicateVote == "more than one proposal per validator per address found"

\* The error of verifyHeadersHook.
ErrInvalidNonce == "invalid nonce"

\* Which collaborator call of an invocation fails inside the store, if any.
NoFault == "none"

Faults == {NoFault, "saveSnap", "deleteLower"}

\* ------------------------------------------------------------------- state

VARIABLES
    epochSize,  \* poa.ibft.epochSize: the checkpoint cadence, fixed at start
    snap,       \* the working snapshot: [Set, Votes]
    before,     \* the working snapshot as the last invocation received it
    store,      \* the snapshot store: a set of sealed snapshots
    height,     \* number of the last header the hook accepted
    pc,         \* "idle" between invocations, "returned" after one,
                \* "repeated" after a second one on the same header
    header,     \* the header of the last invocation: [Number, Miner, Nonce]
    proposer,   \* the proposer of the last invocation
    err,        \* what the last invocation returned
    fault,      \* the collaborator call that failed in the last invocation
    calls       \* the collaborator calls of the last invocation, in order

vars ==
    <<epochSize, snap, before, store, height, pc, header, proposer, err, fault,
      calls>>

\* --------------------------------------------- validator set (ValidatorSet)

Includes(set, a) == \E i \in 1..Len(set) : set[i] = a

Add(set, a) == IF Includes(set, a) THEN set ELSE Append(set, a)

Del(set, a) == SelectSeq(set, LAMBDA x : x # a)

\* ------------------------------------------------- snapshot vote helpers

\* A vote as poa.go builds it.
Vote(validator, address, authorize) ==
    [Validator |-> validator, Address |-> address, Authorize |-> authorize]

\* Every vote value; the predicates of Count and RemoveVotes range over it.
VoteSpace ==
    [Validator : Addresses \cup {ZeroAddress},
     Address : Addresses \cup {ZeroAddress},
     Authorize : BOOLEAN]

\* Count(h): how many votes satisfy the predicate h.
Count(votes, h) == Cardinality({i \in 1..Len(votes) : h[votes[i]]})

\* RemoveVotes(h): drops the votes that satisfy h, keeping the others' order.
RemoveVotes(votes, h) == SelectSeq(votes, LAMBDA v : ~h[v])

\* ------------------------------------------------------- snapshot store

\* saveSnap(header): the working snapshot is sealed under the header's
\* number and put in the store (put is idempotent by number).
saveSnap(st, s, h) ==
    {x \in st : x.Number # h.Number}
        \cup {[Number |-> h.Number, Set |-> s.Set, Votes |-> s.Votes]}

\* store.deleteLower(n): drops every snapshot with a number below n.
deleteLower(st, n) == {x \in st : x.Number >= n}

\* --------------------------------------------------- verifyHeadersHook

\* Check the nonce format: it must be the DROP or the AUTH sentinel.
verifyHeadersHook(nonce) ==
    IF nonce # nonceDropVote /\ nonce # nonceAuthVote
    THEN ErrInvalidNonce
    ELSE ErrNil

\* -------------------------------------------------- processHeadersHook

\* number%poa.ibft.epochSize == 0
IsCheckpoint(number) == number % epochSize = 0

\* Mutant: the purge reaches three epochs back instead of two.
PurgeEpochThreeBack(number) == (number \div epochSize) - 3

\* epoch := int(number/poa.ibft.epochSize) - 2
PurgeEpoch(number) == (number \div epochSize) - 2

\* Mutant: the purge block is one epoch too late.
PurgeBlockOneEpochLater(number) == (PurgeEpoch(number) + 1) * epochSize

\* purgeBlock := uint64(epoch) * poa.ibft.epochSize
PurgeBlock(number) == PurgeEpoch(number) * epochSize

\* The calls of the checkpoint branch, with the votes each one found.
CheckpointCalls(s, h) ==
    IF PurgeEpoch(h.Number) > 0
    THEN << [fn |-> "saveSnap", arg |-> h.Number, votes |-> s.Votes],
            [fn |-> "deleteLower", arg |-> PurgeBlock(h.Number),
             votes |-> s.Votes] >>
    ELSE << [fn |-> "saveSnap", arg |-> h.Number, votes |-> s.Votes] >>

\* The store after the checkpoint branch's calls; a call that fails inside
\* the store (f) leaves the store as it found it.
CheckpointStore(s, st, h, f) ==
    LET saved == IF f = "saveSnap" THEN st ELSE saveSnap(st, s, h)
    IN  IF PurgeEpoch(h.Number) > 0 /\ f # "deleteLower"
        THEN deleteLower(saved, PurgeBlock(h.Number))
        ELSE saved

\* The call that did fail: deleteLower fails only if it is called.
CheckpointFailed(h, f) ==
    IF f = "deleteLower" /\ ~(PurgeEpoch(h.Number) > 0) THEN NoFault ELSE f

\* Mutant: the checkpoint branch seals and purges but keeps the votes.
CheckpointBranchKeepVotes(s, st, h, f) ==
    [snap |-> s,
     store |-> CheckpointStore(s, st, h, f),
     err |-> ErrNil,
     failed |-> CheckpointFailed(h, f),
     calls |-> CheckpointCalls(s, h)]

\* Mutant: a failure of the store is returned to the caller.
CheckpointBranchSurfaceFailure(s, st, h, f) ==
    LET cleared == [s EXCEPT !.Votes = <<>>]
    IN  [snap |-> cleared,
         store |-> CheckpointStore(cleared, st, h, f),
         err |-> IF CheckpointFailed(h, f) = NoFault THEN ErrNil ELSE "store",
         failed |-> CheckpointFailed(h, f),
         calls |-> CheckpointCalls(cleared, h)]

\* Mutant: the snapshot is sealed before its votes are reset.
CheckpointBranchSealFirst(s, st, h, f) ==
    LET cleared == [s EXCEPT !.Votes = <<>>]
    IN  [snap |-> cleared,
         store |-> CheckpointStore(s, st, h, f),
         err |-> ErrNil,
         failed |-> CheckpointFailed(h, f),
         calls |-> CheckpointCalls(s, h)]

\* The checkpoint branch: reset the votes, seal, purge two epochs back, and
\* return nil; neither call hands a result back to the hook.
CheckpointBranch(s, st, h, f) ==
    LET cleared == [s EXCEPT !.Votes = <<>>]
    IN  [snap |-> cleared,
         store |-> CheckpointStore(cleared, st, h, f),
         err |-> ErrNil,
         failed |-> CheckpointFailed(h, f),
         calls |-> CheckpointCalls(cleared, h)]

\* The hook returned before touching anything.
Return(s, st, e) ==
    [snap |-> s, store |-> st, err |-> e, failed |-> NoFault, calls |-> <<>>]

\* Mutant: the default case of the switch falls through as a DROP.
ValidVoteNonceAny(nonce) == TRUE

\* Mutant: the switch knows the AUTH sentinel only.
ValidVoteNonceAuthOnly(nonce) == nonce = nonceAuthVote

\* The nonce selects the action.
ValidVoteNonce(nonce) == nonce = nonceAuthVote \/ nonce = nonceDropVote

\* Mutant: only the AUTH direction is validated.
AlreadySatisfiedAuthOnly(s, h) ==
    h.Nonce = nonceAuthVote /\ Includes(s.Set, h.Miner)

\* Mutant: the vote is never validated against the membership.
AlreadySatisfiedNever(s, h) == FALSE

\* validate the vote: an AUTH for a member, a DROP for a non-member.
AlreadySatisfied(s, h) ==
    IF h.Nonce = nonceAuthVote
    THEN Includes(s.Set, h.Miner)
    ELSE ~Includes(s.Set, h.Miner)

\* voteCount: the votes of this proposer on this miner.
VoteCount(s, h, p) ==
    Count(s.Votes, [v \in VoteSpace |-> v.Validator = p /\ v.Address = h.Miner])

\* Mutant: the vote is appended whether or not the proposer has one.
CastVoteAlways(s, h, p) ==
    [s EXCEPT !.Votes = Append(@, Vote(p, h.Miner, h.Nonce = nonceAuthVote))]

\* Mutant: the vote is cast only for a proposer that is a validator.
CastVoteMemberOnly(s, h, p) ==
    IF VoteCount(s, h, p) = 0 /\ Includes(s.Set, p)
    THEN [s EXCEPT !.Votes =
            Append(@, Vote(p, h.Miner, h.Nonce = nonceAuthVote))]
    ELSE s

\* voteCount == 0: cast the new vote since there is no one yet.
CastVote(s, h, p) ==
    IF VoteCount(s, h, p) = 0
    THEN [s EXCEPT !.Votes =
            Append(@, Vote(p, h.Miner, h.Nonce = nonceAuthVote))]
    ELSE s

\* tally: the votes naming the miner.
Tally(s, h) == Count(s.Votes, [v \in VoteSpace |-> v.Address = h.Miner])

\* Mutant: a tie (exactly half) triggers too.
MajorityReachedOnTie(s, h) == Tally(s, h) >= Len(s.Set) \div 2

\* Mutant: the threshold is half of the set rounded down, less one.
MajorityReachedEarly(s, h) == Tally(s, h) > (Len(s.Set) \div 2) - 1

\* tally > params.snap.Set.Len()/2
MajorityReached(s, h) == Tally(s, h) > Len(s.Set) \div 2

\* Mutant: the votes cast by an evicted validator are kept.
ApplyOutcomeKeepVoterVotes(s, h) ==
    LET changed ==
            IF h.Nonce = nonceAuthVote
            THEN [s EXCEPT !.Set = Add(@, h.Miner)]
            ELSE [s EXCEPT !.Set = Del(@, h.Miner)]
    IN  [changed EXCEPT !.Votes =
            RemoveVotes(@, [v \in VoteSpace |-> v.Address = h.Miner])]

\* Mutant: the ballot on the candidate is closed only on an eviction.
ApplyOutcomeKeepBallotOnAdd(s, h) ==
    IF h.Nonce = nonceAuthVote
    THEN [s EXCEPT !.Set = Add(@, h.Miner)]
    ELSE [Set |-> Del(s.Set, h.Miner),
          Votes |-> RemoveVotes(
                        RemoveVotes(s.Votes, [v \in VoteSpace |-> v.Validator = h.Miner]),
                        [v \in VoteSpace |-> v.Address = h.Miner])]

\* Mutant: a membership change closes every ballot, not the miner's alone.
ApplyOutcomePurgeAll(s, h) ==
    IF h.Nonce = nonceAuthVote
    THEN [Set |-> Add(s.Set, h.Miner), Votes |-> <<>>]
    ELSE [Set |-> Del(s.Set, h.Miner), Votes |-> <<>>]

\* The body of the majority branch.
ApplyOutcome(s, h) ==
    LET changed ==
            IF h.Nonce = nonceAuthVote
            THEN [s EXCEPT !.Set = Add(@, h.Miner)]
            ELSE [Set |-> Del(s.Set, h.Miner),
                  Votes |-> RemoveVotes(s.Votes,
                                        [v \in VoteSpace |-> v.Validator = h.Miner])]
    IN  [changed EXCEPT !.Votes =
            RemoveVotes(@, [v \in VoteSpace |-> v.Address = h.Miner])]

\* Mutant: the proposer's votes on the miner are not counted for duplicates.
VoteBranchNoDuplicateCheck(s, st, h, p) ==
    LET cast == CastVote(s, h, p)
    IN  IF MajorityReached(cast, h)
        THEN Return(ApplyOutcome(cast, h), st, ErrNil)
        ELSE Return(cast, st, ErrNil)

\* The vote branch once the vote is known to be open.
VoteBranch(s, st, h, p) ==
    IF VoteCount(s, h, p) > 1
    THEN Return(s, st, ErrDuplicateVote)
    ELSE LET cast == CastVote(s, h, p)
         IN  IF MajorityReached(cast, h)
             THEN Return(ApplyOutcome(cast, h), st, ErrNil)
             ELSE Return(cast, st, ErrNil)

\* Mutant: a header without a miner goes on to the nonce switch.
processHeadersHookNoZeroMiner(s, st, h, p, f) ==
    IF IsCheckpoint(h.Number) THEN CheckpointBranch(s, st, h, f)
    ELSE IF ~ValidVoteNonce(h.Nonce) THEN Return(s, st, ErrIncorrectVoteNonce)
    ELSE IF AlreadySatisfied(s, h) THEN Return(s, st, ErrNil)
    ELSE VoteBranch(s, st, h, p)

\* p is the recovered proposer; f is the store call that fails, if any.
processHeadersHook(s, st, h, p, f) ==
    IF IsCheckpoint(h.Number) THEN CheckpointBranch(s, st, h, f)
    ELSE IF h.Miner = ZeroAddress THEN Return(s, st, ErrNil)
    ELSE IF ~ValidVoteNonce(h.Nonce) THEN Return(s, st, ErrIncorrectVoteNonce)
    ELSE IF AlreadySatisfied(s, h) THEN Return(s, st, ErrNil)
    ELSE VoteBranch(s, st, h, p)

\* ---------------------------------------------------------------- actions

\* The params of an invocation exist only while it runs: between two
\* invocations there is no header, no proposer and no result.
NoHeader == [Number |-> 0, Miner |-> ZeroAddress, Nonce |-> nonceDropVote]

\* The genesis snapshot is sealed at block 0; no header was processed yet.
Init ==
    /\ epochSize \in EpochSizes
    /\ snap = [Set |-> GenesisSet, Votes |-> <<>>]
    /\ before = [Set |-> GenesisSet, Votes |-> <<>>]
    /\ store = {[Number |-> 0, Set |-> GenesisSet, Votes |-> <<>>]}
    /\ height = 0
    /\ pc = "idle"
    /\ header = NoHeader
    /\ proposer = ZeroAddress
    /\ err = ErrNil
    /\ fault = NoFault
    /\ calls = <<>>

\* The block processor hands the next header to the hook, which runs to
\* completion; a header the hook rejects does not advance the chain.
ProcessHeader(miner, nonce, p, f) ==
    /\ pc = "idle"
    /\ height < MaxNumber
    /\ LET h == [Number |-> height + 1, Miner |-> miner, Nonce |-> nonce]
           r == processHeadersHook(snap, store, h, p, f)
       IN  /\ header' = h
           /\ proposer' = p
           /\ before' = snap
           /\ snap' = r.snap
           /\ store' = r.store
           /\ err' = r.err
           /\ fault' = r.failed
           /\ calls' = r.calls
           /\ height' = IF r.err = ErrNil THEN h.Number ELSE height
    /\ pc' = "returned"
    /\ UNCHANGED epochSize

ProcessHeaders ==
    \E miner \in Addresses \cup {ZeroAddress}, nonce \in Nonces, p \in Addresses :
        ProcessHeader(miner, nonce, p, NoFault)

\* The block processor takes the result and drops the invocation's params.
Release ==
    /\ pc \in {"returned", "repeated"}
    /\ pc' = "idle"
    /\ header' = NoHeader
    /\ proposer' = ZeroAddress
    /\ before' = snap
    /\ err' = ErrNil
    /\ fault' = NoFault
    /\ calls' = <<>>
    /\ UNCHANGED <<epochSize, snap, store, height>>

Next == ProcessHeaders \/ Release

Spec == Init /\ [][Next]_vars

\* The same, with every header proposed by a member of the working set.
ProcessHeadersMember ==
    \E miner \in Addresses \cup {ZeroAddress}, nonce \in Nonces,
       p \in {a \in Addresses : Includes(snap.Set, a)} :
        ProcessHeader(miner, nonce, p, NoFault)

NextMember == ProcessHeadersMember \/ Release

SpecMember == Init /\ [][NextMember]_vars

\* The hook is handed once more the header it has just processed, on the
\* snapshot and the store the first invocation left.
Repeat ==
    /\ pc = "returned"
    /\ LET r == processHeadersHook(snap, store, header, proposer, NoFault)
       IN  /\ before' = snap
           /\ snap' = r.snap
           /\ store' = r.store
           /\ err' = r.err
           /\ fault' = r.failed
           /\ calls' = r.calls
    /\ pc' = "repeated"
    /\ UNCHANGED <<epochSize, height, header, proposer>>

NextRepeat == ProcessHeaders \/ Repeat \/ Release

SpecRepeat == Init /\ [][NextRepeat]_vars

\* The same as Spec, with store calls that may fail inside the store; the
\* votes, which the checkpoint branch does not read, come from one candidate
\* and two proposers.
ProcessHeadersFaulty ==
    \E miner \in {ZeroAddress, "d"}, nonce \in Nonces,
       p \in {"a", "b"}, f \in Faults :
        ProcessHeader(miner, nonce, p, f)

NextFaulty == ProcessHeadersFaulty \/ Release

SpecFaulty == Init /\ [][NextFaulty]_vars

\* A crafted parent snapshot: any vote list up to MaxCraftedVotes, repeated
\* and contradictory votes included, cast by a member or by an outsider on a
\* member or on an outsider.
CraftedVoteSpace ==
    [Validator : {"a", "d"}, Address : {"b", "d"}, Authorize : BOOLEAN]

CraftedVotes ==
    UNION {[1..n -> CraftedVoteSpace] : n \in 0..MaxCraftedVotes}

CraftedSets == {GenesisSet, <<"a", "b", "c", "d">>}

\* The hook is handed one header on a crafted snapshot, at any height.
InitCrafted ==
    /\ epochSize \in EpochSizes
    /\ snap \in [Set : CraftedSets, Votes : CraftedVotes]
    /\ before = snap
    /\ store = {[Number |-> 0, Set |-> GenesisSet, Votes |-> <<>>]}
    /\ height \in 0..(MaxNumber - 1)
    /\ pc = "idle"
    /\ header = NoHeader
    /\ proposer = ZeroAddress
    /\ err = ErrNil
    /\ fault = NoFault
    /\ calls = <<>>

NextCrafted == ProcessHeaders

SpecCrafted == InitCrafted /\ [][NextCrafted]_vars

\* ------------------------------------------------------ reading a result

\* An invocation has just returned: header, proposer, before, err and calls
\* describe it.
Returned == pc = "returned"

HeaderIsCheckpoint == header.Number % epochSize = 0

Member(set, a) == a \in {set[i] : i \in 1..Len(set)}

HasVote(votes, voter, candidate) ==
    \E i \in 1..Len(votes) :
        votes[i].Validator = voter /\ votes[i].Address = candidate

VotesNaming(votes, candidate) ==
    {i \in 1..Len(votes) : votes[i].Address = candidate}

\* The votes naming header.Miner once the proposer's vote is accounted for.
TallyAfterVote ==
    Cardinality(VotesNaming(before.Votes, header.Miner))
        + (IF HasVote(before.Votes, proposer, header.Miner) THEN 0 ELSE 1)

\* floor(|set| / 2) of the set the invocation received.
Threshold == Len(before.Set) \div 2

\* A non-checkpoint header with a miner, a valid nonce and a vote that the
\* membership does not already satisfy.
OpenVote ==
    /\ Returned
    /\ ~HeaderIsCheckpoint
    /\ header.Miner # ZeroAddress
    /\ header.Nonce \in {nonceAuthVote, nonceDropVote}
    /\ (header.Nonce = nonceAuthVote) = ~Member(before.Set, header.Miner)

\* ------------------------------------------------------------------ claims

\* C1. Vote uniqueness: from a snapshot with no pending votes, after any
\* sequence of invocations the snapshot never holds two votes with the same
\* (voter, candidate) pair.
VoteUniqueness ==
    \A i, j \in 1..Len(snap.Votes) :
        (/\ snap.Votes[i].Validator = snap.Votes[j].Validator
         /\ snap.Votes[i].Address = snap.Votes[j].Address) => i = j

\* C1 witness: a proposer repeats an open vote it already holds, short of a
\* majority; the hook succeeds and the one vote stands.
VoteUniquenessWitness ==
    /\ OpenVote
    /\ err = ErrNil
    /\ HasVote(before.Votes, proposer, header.Miner)
    /\ HasVote(snap.Votes, proposer, header.Miner)
    /\ Len(snap.Votes) >= 2

\* C2. Voter membership: with every proposer a member of the working set,
\* every pending vote's voter is a member of the snapshot's validator set.
VoterMembership ==
    \A i \in 1..Len(snap.Votes) : Member(snap.Set, snap.Votes[i].Validator)

\* C2 witness: a validator that had cast a vote on another candidate is
\* evicted by members' votes.
VoterMembershipWitness ==
    /\ OpenVote
    /\ header.Nonce = nonceDropVote
    /\ ~Member(snap.Set, header.Miner)
    /\ \E i \in 1..Len(before.Votes) :
            /\ before.Votes[i].Validator = header.Miner
            /\ before.Votes[i].Address # header.Miner
    /\ Member(before.Set, proposer)

\* C3. Checkpoint clears votes: on every header whose number is a multiple
\* of epochSize the hook succeeds, the votes are empty afterwards and the
\* validator set is the one it received.
CheckpointClearsVotes ==
    (Returned /\ HeaderIsCheckpoint) =>
        /\ err = ErrNil
        /\ snap.Votes = <<>>
        /\ snap.Set = before.Set

\* C3 witness: a checkpoint header carrying an AUTH vote that, on any other
\* header, would have completed a majority over pending votes.
CheckpointClearsVotesWitness ==
    /\ Returned
    /\ HeaderIsCheckpoint
    /\ header.Nonce = nonceAuthVote
    /\ header.Miner # ZeroAddress
    /\ ~Member(before.Set, header.Miner)
    /\ VotesNaming(before.Votes, header.Miner) # {}
    /\ ~HasVote(before.Votes, proposer, header.Miner)
    /\ TallyAfterVote > Threshold

\* C4. Majority monotonicity: an invocation changes the validator set only
\* if the votes naming header.Miner, the proposer's included, are strictly
\* more than floor(|set| / 2) of the set before the change.
MajorityMonotonicity ==
    (Returned /\ snap.Set # before.Set) =>
        /\ OpenVote
        /\ TallyAfterVote > Threshold

\* C4 witness: a set of four loses a member on the third vote naming it.
MajorityMonotonicityWitness ==
    /\ Returned
    /\ Len(before.Set) = 4
    /\ Len(snap.Set) = 3
    /\ TallyAfterVote = 3

\* C5. Majority trigger: on an open vote, a tally strictly above
\* floor(|set| / 2) admits the miner of an AUTH header and evicts the miner
\* of a DROP header in that invocation; at or below it the membership is
\* unchanged and the proposer's vote stays pending.
MajorityTrigger ==
    OpenVote =>
        IF TallyAfterVote > Threshold
        THEN Member(snap.Set, header.Miner) = (header.Nonce = nonceAuthVote)
        ELSE /\ snap.Set = before.Set
             /\ HasVote(snap.Votes, proposer, header.Miner)

\* C5 witness: a tie, the tally being exactly half of a set of four.
MajorityTriggerWitness ==
    /\ OpenVote
    /\ Len(before.Set) = 4
    /\ TallyAfterVote = 2
    /\ ~HasVote(before.Votes, proposer, header.Miner)
    /\ snap.Set = before.Set

\* C6. Ballot closure: whenever an address changes membership in an
\* invocation, that address is header.Miner on an open vote whose tally
\* passed the majority, and the resulting snapshot holds no vote naming it.
BallotClosure ==
    Returned =>
        \A a \in Addresses \cup {ZeroAddress} :
            Member(before.Set, a) # Member(snap.Set, a) =>
                /\ OpenVote
                /\ a = header.Miner
                /\ TallyAfterVote > Threshold
                /\ VotesNaming(snap.Votes, a) = {}

\* C6 witness: an admission closes a ballot of two votes while a vote on
\* another candidate stays pending.
BallotClosureWitness ==
    /\ OpenVote
    /\ header.Nonce = nonceAuthVote
    /\ Member(snap.Set, header.Miner)
    /\ Cardinality(VotesNaming(before.Votes, header.Miner)) >= 1
    /\ snap.Votes # <<>>

\* C7. Per-candidate governance state: every pending AUTH vote names a
\* non-member and every pending DROP vote names a member, so the votes
\* pending on one candidate all have one direction.
GovernanceState ==
    \A i \in 1..Len(snap.Votes) :
        snap.Votes[i].Authorize = ~Member(snap.Set, snap.Votes[i].Address)

\* C7 witness: a candidate is pending admission and a member is pending
\* eviction in the same snapshot.
GovernanceStateWitness ==
    /\ Returned
    /\ \E i, j \in 1..Len(snap.Votes) :
            /\ snap.Votes[i].Authorize
            /\ ~snap.Votes[j].Authorize
            /\ ~Member(snap.Set, snap.Votes[i].Address)
            /\ Member(snap.Set, snap.Votes[j].Address)

\* C8. Purge horizon: after a checkpoint header N = k * epochSize with
\* k >= 3 the store holds no snapshot below (k - 2) * epochSize; for
\* k <= 2 every snapshot number the store held is still in it.
PurgeHorizonStep ==
    (pc' = "returned" /\ header'.Number % epochSize = 0) =>
        LET k == header'.Number \div epochSize
        IN  IF k >= 3
            THEN \A x \in store' : x.Number >= (k - 2) * epochSize
            ELSE \A x \in store : \E y \in store' : y.Number = x.Number

PurgeHorizon == [][PurgeHorizonStep]_vars

\* C8 witness: the third checkpoint or a later one has been processed; the
\* genesis snapshot is gone and the last three checkpoints are held.
PurgeHorizonWitness ==
    /\ Returned
    /\ HeaderIsCheckpoint
    /\ epochSize > 1
    /\ header.Number \div epochSize >= 3
    /\ {x.Number : x \in store} =
           {header.Number - 2 * epochSize, header.Number - epochSize,
            header.Number}

\* C9. Invalid vote nonce: on a non-checkpoint header with a non-zero miner,
\* a nonce that is neither sentinel makes the hook return an error and
\* leaves the validator set and the votes as they were, member or not.
InvalidVoteNonce ==
    (/\ Returned
     /\ ~HeaderIsCheckpoint
     /\ header.Miner # ZeroAddress
     /\ header.Nonce \notin {nonceAuthVote, nonceDropVote}) =>
        /\ err # ErrNil
        /\ snap = before

\* C9 witness: the bad nonce comes with a miner that is a member, from a
\* proposer that is one, while votes are pending.
InvalidVoteNonceWitness ==
    /\ Returned
    /\ ~HeaderIsCheckpoint
    /\ header.Nonce = nonceOther
    /\ Member(before.Set, header.Miner)
    /\ Member(before.Set, proposer)
    /\ before.Votes # <<>>
    /\ err = ErrIncorrectVoteNonce

\* C10. Idempotent no-ops: on a non-checkpoint header, an AUTH vote for a
\* member and a DROP vote for a non-member return success and leave the
\* validator set and the votes as they were.
IdempotentNoOps ==
    (/\ Returned
     /\ ~HeaderIsCheckpoint
     /\ header.Miner # ZeroAddress
     /\ \/ header.Nonce = nonceAuthVote /\ Member(before.Set, header.Miner)
        \/ header.Nonce = nonceDropVote /\ ~Member(before.Set, header.Miner)) =>
        /\ err = ErrNil
        /\ snap = before

\* C10 witness: an AUTH for a member on which a DROP vote is pending, from a
\* proposer whose vote would have completed a majority had it been counted.
IdempotentNoOpsWitness ==
    /\ Returned
    /\ ~HeaderIsCheckpoint
    /\ header.Nonce = nonceAuthVote
    /\ Member(before.Set, header.Miner)
    /\ ~HasVote(before.Votes, proposer, header.Miner)
    /\ TallyAfterVote > Threshold
    /\ snap = before

\* C11. No-vote branch: on a non-checkpoint header whose miner is the ZERO
\* address the hook succeeds for every nonce, leaves the validator set, the
\* votes and the store alone and calls neither saveSnap nor deleteLower; no
\* pending vote ever names the ZERO address.
NoVoteBranch ==
    /\ (Returned /\ ~HeaderIsCheckpoint /\ header.Miner = ZeroAddress) =>
            /\ err = ErrNil
            /\ snap = before
            /\ calls = <<>>
    /\ \A i \in 1..Len(snap.Votes) : snap.Votes[i].Address # ZeroAddress

\* C11 witness: a header without a miner carries a nonce that is neither
\* sentinel while votes are pending.
NoVoteBranchWitness ==
    /\ Returned
    /\ ~HeaderIsCheckpoint
    /\ header.Miner = ZeroAddress
    /\ header.Nonce = nonceOther
    /\ before.Votes # <<>>
    /\ err = ErrNil

\* The votes the snapshot received that the proposer cast on header.Miner.
ProposerVotesBefore ==
    {i \in 1..Len(before.Votes) :
        /\ before.Votes[i].Validator = proposer
        /\ before.Votes[i].Address = header.Miner}

\* C13. Duplicate vote: when the snapshot holds more than one vote of the
\* proposer on header.Miner and the header is an open vote, the hook returns
\* an error and leaves the validator set and the votes as they were.
DuplicateVote ==
    (OpenVote /\ Cardinality(ProposerVotesBefore) > 1) =>
        /\ err = ErrDuplicateVote
        /\ snap = before

\* C13 witness: two identical votes of the proposer on the miner, which
\* counted as a tally would have passed the threshold.
DuplicateVoteWitness ==
    /\ OpenVote
    /\ Cardinality(ProposerVotesBefore) = 2
    /\ before.Votes[1] = before.Votes[2]
    /\ Cardinality(VotesNaming(before.Votes, header.Miner)) > Threshold
    /\ err = ErrDuplicateVote

VoteSet(votes) == {votes[i] : i \in 1..Len(votes)}

\* The vote the header asks the proposer to cast.
HeaderVote == Vote(proposer, header.Miner, header.Nonce = nonceAuthVote)

\* C15 as claimed. Voter is a validator at casting: a header whose proposer
\* is not a member of the working set never adds a pending vote and never
\* changes membership.
VoterIsValidatorAtCasting ==
    (Returned /\ ~Member(before.Set, proposer)) =>
        /\ VoteSet(snap.Votes) \subseteq VoteSet(before.Votes)
        /\ snap.Set = before.Set

\* C15 as amended. The hook does not test the proposer's membership: on an
\* open vote from a proposer with no vote yet on the miner, member or not,
\* the proposer's vote is counted, and it is appended as pending unless the
\* tally passes the majority and changes the membership; every vote an
\* invocation adds has the proposer as its voter.
VoteCastForAnyProposer ==
    /\ (OpenVote /\ ~HasVote(before.Votes, proposer, header.Miner)) =>
            IF TallyAfterVote > Threshold
            THEN Member(snap.Set, header.Miner) = (header.Nonce = nonceAuthVote)
            ELSE snap.Votes = Append(before.Votes, HeaderVote)
    /\ Returned =>
            VoteSet(snap.Votes) \subseteq VoteSet(before.Votes) \cup {HeaderVote}

\* C15 witness: the vote of a proposer that is not a validator is pending.
VoteCastForAnyProposerWitness ==
    /\ OpenVote
    /\ ~Member(before.Set, proposer)
    /\ before.Set # <<>>
    /\ snap.Votes = Append(before.Votes, HeaderVote)

\* C16. Checkpoint ordering and publication: on a checkpoint header the hook
\* calls saveSnap exactly once, first, with the votes already cleared, and
\* deleteLower only after it; on any other header it calls neither; every
\* snapshot in the store has empty votes.
CheckpointOrdering ==
    /\ Returned =>
            IF HeaderIsCheckpoint
            THEN /\ Len(calls) >= 1
                 /\ calls[1].fn = "saveSnap"
                 /\ calls[1].arg = header.Number
                 /\ calls[1].votes = <<>>
                 /\ \A i \in 2..Len(calls) : calls[i].fn = "deleteLower"
            ELSE calls = <<>>
    /\ \A x \in store : x.Votes = <<>>

\* C16 witness: a checkpoint that found votes pending, sealed the snapshot
\* and then purged the store.
CheckpointOrderingWitness ==
    /\ Returned
    /\ HeaderIsCheckpoint
    /\ before.Votes # <<>>
    /\ Len(calls) = 2
    /\ calls[2].fn = "deleteLower"
    /\ \E x \in store : x.Number = header.Number /\ x.Set = snap.Set

\* The votes of a list that name another candidate than header.Miner.
OtherVotes(votes) == SelectSeq(votes, LAMBDA v : v.Address # header.Miner)

\* The invocation evicted header.Miner.
Evicted == Member(before.Set, header.Miner) /\ ~Member(snap.Set, header.Miner)

\* No address but header.Miner changed membership.
OthersKeepMembership ==
    \A a \in Addresses \ {header.Miner} :
        Member(before.Set, a) = Member(snap.Set, a)

\* The votes naming other candidates are those received, in order, less the
\* ones cast by header.Miner if it was evicted.
OtherVotesKept ==
    OtherVotes(snap.Votes) =
        SelectSeq(OtherVotes(before.Votes),
                  LAMBDA v : ~(Evicted /\ v.Validator = header.Miner))

\* C17 as claimed. No cascade recomputation: an invocation changes the
\* membership of header.Miner at most; votes naming other candidates are
\* never added and are removed only when cast by the evicted miner.
NoCascade == Returned => (OthersKeepMembership /\ OtherVotesKept)

\* C17 as amended. The same on a non-checkpoint header; a checkpoint header
\* changes no membership either, but removes every vote.
NoCascadeOffCheckpoint ==
    Returned =>
        /\ OthersKeepMembership
        /\ IF HeaderIsCheckpoint THEN snap.Votes = <<>> ELSE OtherVotesKept

\* C17 witness: an eviction shrinks the set and leaves, on another candidate,
\* a tally above the new threshold; that candidate's membership stands.
NoCascadeOffCheckpointWitness ==
    /\ Returned
    /\ ~HeaderIsCheckpoint
    /\ Evicted
    /\ \E c \in Addresses \ {header.Miner} :
            /\ Cardinality(VotesNaming(snap.Votes, c)) > Len(snap.Set) \div 2
            /\ Cardinality(VotesNaming(before.Votes, c)) <= Threshold
            /\ Member(snap.Set, c) = Member(before.Set, c)

\* C18. Verify implies process: verifyHeadersHook accepts a nonce exactly
\* when it is the AUTH or the DROP sentinel, and a header whose nonce it
\* accepts never makes processHeadersHook fail with the vote-nonce error.
VerifyImpliesProcess ==
    Returned =>
        /\ (verifyHeadersHook(header.Nonce) = ErrNil)
               = (header.Nonce \in {nonceAuthVote, nonceDropVote})
        /\ verifyHeadersHook(header.Nonce) = ErrNil =>
               err # ErrIncorrectVoteNonce

\* C18 witness: a DROP header on a member passed verification and went
\* through the nonce switch to cast its vote.
VerifyImpliesProcessWitness ==
    /\ OpenVote
    /\ header.Nonce = nonceDropVote
    /\ verifyHeadersHook(header.Nonce) = ErrNil
    /\ err = ErrNil
    /\ HasVote(snap.Votes, proposer, header.Miner)

\* C19. Bounded retention keeps recent history: with headers processed in
\* block order, a checkpoint k * epochSize keeps every stored snapshot at or
\* above (k - 2) * epochSize, so the snapshots of this checkpoint and of the
\* two before it are in the store; other headers leave the store alone.
RetentionStep ==
    pc' = "returned" =>
        LET k == header'.Number \div epochSize
        IN  IF header'.Number % epochSize = 0
            THEN /\ \A x \in store :
                        (/\ x.Number >= (k - 2) * epochSize
                         /\ x.Number # header'.Number) => x \in store'
                 /\ \A j \in {k - 2, k - 1, k} :
                        j >= 0 => \E y \in store' : y.Number = j * epochSize
            ELSE store' = store

BoundedRetention == [][RetentionStep]_vars

\* C19 witness: the fourth checkpoint or a later one purged the store up
\* to its horizon; the snapshot sealed two checkpoints earlier is still
\* there, and three snapshots are held in all.
BoundedRetentionWitness ==
    /\ Returned
    /\ HeaderIsCheckpoint
    /\ header.Number \div epochSize >= 4
    /\ Len(calls) = 2
    /\ calls[2].arg = header.Number - 2 * epochSize
    /\ \E x \in store :
            /\ x.Number = header.Number - 2 * epochSize
            /\ x.Votes = <<>>
    /\ Cardinality(store) = 3

\* C20. Sequential idempotence of a repeated vote: processing the same
\* header a second time right after the first leaves the validator set and
\* the vote list as the first left them, and succeeds (a header rejected
\* for its nonce is rejected again).
SequentialIdempotence ==
    pc = "repeated" =>
        /\ snap = before
        /\ err # ErrNil => header.Nonce \notin {nonceAuthVote, nonceDropVote}

\* C20 witness: the repeated header is an open vote; the proposer's vote,
\* cast the first time, is found the second time and stands alone.
SequentialIdempotenceWitness ==
    /\ pc = "repeated"
    /\ ~HeaderIsCheckpoint
    /\ header.Miner # ZeroAddress
    /\ (header.Nonce = nonceAuthVote) = ~Member(before.Set, header.Miner)
    /\ Cardinality(ProposerVotesBefore) = 1
    /\ err = ErrNil
    /\ snap = before

====
